---- MODULE Spec2Model ----
(***************************************************************************)
(* Library catalog service: BookService (create / read / list / search /   *)
(* update / soft delete) over the books and wishlists tables, and the      *)
(* wishlist-notification queue fed by updateBook.                          *)
(*                                                                         *)
(* Every request is a call record in `calls`; its `pc` is the await point  *)
(* the handler is suspended at.  Spec runs one request at a time, SpecConc *)
(* interleaves the await points of two requests, SpecHttp sends requests   *)
(* through the routes (validators, controller, error handler), SpecWorker  *)
(* runs the queue's consumer next to the requests and SpecWorkerFair adds  *)
(* the fairness of that consumer.                                          *)
(***************************************************************************)
EXTENDS Integers, Sequences, FiniteSets, TLC

(* ------------------------------ bounds -------------------------------- *)
MaxBooks == 2
MaxCalls == 4
MaxConcCalls == 3
MaxJobs == 2
MaxWishlists == 2
MaxWorkerCalls == 4
MaxFairCalls == 4
MaxHttpCalls == 3

Procs == {1, 2}
Titles == {<<"D", "u">>, <<"e">>}
ConcTitles == {<<"e">>}
Authors == {<<"H">>}
Isbn13(d) == <<"9", "7", "8", "0", "0", "0", "0", "0", "0", "0", "0", "0", d>>
ISBNs == {Isbn13("1"), Isbn13("2")}
Years == {1949}
Statuses == {"Available", "Borrowed"}
Users == {7, 9}
Pages == {1, 2}
Limits == {1}
AuthorFilters == {<<"h">>}
Queries == {<<"d">>, <<" ", "H", " ">>}

(* ------------------------------ values -------------------------------- *)
\* deletedAt of a row that was never deleted
NULL == 0

\* a request body field that may be missing: the empty object or {k: v}
Opt(k, D) == {<<>>} \cup {(k :> v) : v \in D}

BookCreateInput(titles) ==
    {[title |-> t, author |-> a, isbn |-> i, publishedYear |-> y] @@ s :
        t \in titles, a \in Authors, i \in ISBNs, y \in Years,
        s \in Opt("availabilityStatus", Statuses)}

BookUpdateInput(titles) ==
    {t @@ i @@ s :
        t \in Opt("title", titles), i \in Opt("isbn", ISBNs),
        s \in Opt("availabilityStatus", Statuses)}

BookQueryParams ==
    {pg @@ l @@ a @@ y :
        pg \in Opt("page", Pages), l \in Opt("limit", Limits),
        a \in Opt("author", AuthorFilters), y \in Opt("publishedYear", Years)}

SearchQueryParams ==
    {[query |-> q] @@ pg @@ l :
        q \in Queries, pg \in Opt("page", Pages), l \in Opt("limit", Limits)}

BOOK_ERRORS ==
    [DUPLICATE_ISBN |-> [message |-> "Book with this ISBN already exists", statusCode |-> 409],
     NOT_FOUND |-> [message |-> "Book not found", statusCode |-> 404]]

PRISMA_ERRORS ==
    [DUPLICATE_CONSTRAINT |-> [message |-> "Duplicate entry. This ISBN already exists.", statusCode |-> 409],
     RECORD_NOT_FOUND |-> [message |-> "Resource not found", statusCode |-> 404]]

\* status 0 and code "" stand for a property the error object does not have
AppError(e) ==
    [name |-> "AppError", message |-> e.message, status |-> e.statusCode, code |-> ""]

PrismaUniqueError ==
    [name |-> "PrismaClientKnownRequestError",
     message |-> "Unique constraint failed on the fields: (isbn)", status |-> 0, code |-> "P2002"]

\* the error reading a property of undefined raises
TypeError(message) ==
    [name |-> "TypeError", message |-> message, status |-> 0, code |-> ""]

QueueError ==
    [name |-> "Error", message |-> "connect ECONNREFUSED", status |-> 0, code |-> "ECONNREFUSED"]

(* ------------------------------- state -------------------------------- *)
VARIABLES
    books,      \* the books table: row i is the book with id i (SERIAL)
    wishlists,  \* the wishlists table, in id order
    queue,      \* jobs added to notificationQueue, in order
    clock,      \* the time, advanced by every insert
    calls,      \* the request each slot is serving
    ncalls,     \* writes started so far
    log         \* the records the worker and the queue's event handlers logged

vars == <<books, wishlists, queue, clock, calls, ncalls, log>>

Idle ==
    [op |-> "none", pc |-> "idle", id |-> 0, data |-> <<>>,
     existingBook |-> <<>>, ret |-> <<>>, err |-> <<>>, pre |-> <<>>]

Init ==
    /\ books = <<>>
    /\ wishlists = <<>>
    /\ queue = <<>>
    /\ clock = 1
    /\ calls = [p \in Procs |-> Idle]
    /\ ncalls = 0
    /\ log = <<>>

(* --------------------------- the database ----------------------------- *)
\* the ISBN pre-check with its soft-delete filter inverted
FindFirstDeletedByIsbn(isbn) ==
    LET hits == {i \in DOMAIN books : books[i].isbn = isbn /\ books[i].isDeleted}
    IN  IF hits = {} THEN <<>>
        ELSE <<books[CHOOSE i \in hits : \A j \in hits : i <= j]>>

\* prisma.book.findFirst({ where: { isbn, isDeleted: false } })
FindFirstByIsbn(isbn) ==
    LET hits == {i \in DOMAIN books : books[i].isbn = isbn /\ ~books[i].isDeleted}
    IN  IF hits = {} THEN <<>>
        ELSE <<books[CHOOSE i \in hits : \A j \in hits : i <= j]>>

\* the lookup by id without its soft-delete filter
FindById(id) ==
    IF id \in DOMAIN books THEN <<books[id]>> ELSE <<>>

\* prisma.book.findFirst({ where: { id, isDeleted: false } })
FindFirstById(id) ==
    IF id \in DOMAIN books /\ ~books[id].isDeleted THEN <<books[id]>> ELSE <<>>

\* the table without its unique index
IsbnKeyMissing(id, isbn) == FALSE

\* CREATE UNIQUE INDEX "books_isbn_key" ON "books"("isbn"): does writing
\* isbn into row id (0 for a new row) collide with another row?
IsbnKeyViolated(id, isbn) ==
    \E i \in DOMAIN books : i # id /\ books[i].isbn = isbn

\* the row prisma.book.create inserts
NewBook(data) ==
    [id |-> Len(books) + 1,
     title |-> data.title,
     author |-> data.author,
     isbn |-> data.isbn,
     publishedYear |-> data.publishedYear,
     availabilityStatus |->
        IF "availabilityStatus" \in DOMAIN data THEN data.availabilityStatus ELSE "Available",
     isDeleted |-> FALSE,
     deletedAt |-> NULL,
     createdAt |-> clock]

\* the row prisma.book.update writes: fields of data replace the row's
Patched(book, data) ==
    [f \in DOMAIN book |-> IF f \in DOMAIN data THEN data[f] ELSE book[f]]

(* ------------------------------- text --------------------------------- *)
UpperCase == <<"A", "B", "C", "D", "E", "F", "G", "H", "I", "J", "K", "L", "M",
               "N", "O", "P", "Q", "R", "S", "T", "U", "V", "W", "X", "Y", "Z">>
LowerCase == <<"a", "b", "c", "d", "e", "f", "g", "h", "i", "j", "k", "l", "m",
               "n", "o", "p", "q", "r", "s", "t", "u", "v", "w", "x", "y", "z">>

ToLower(s) ==
    [k \in DOMAIN s |->
        IF \E n \in DOMAIN UpperCase : UpperCase[n] = s[k]
        THEN LowerCase[CHOOSE n \in DOMAIN UpperCase : UpperCase[n] = s[k]]
        ELSE s[k]]

\* String.prototype.trim
Trim(s) ==
    LET inked == {k \in DOMAIN s : s[k] # " "}
    IN  IF inked = {} THEN <<>>
        ELSE SubSeq(s, CHOOSE k \in inked : \A j \in inked : k <= j,
                       CHOOSE k \in inked : \A j \in inked : k >= j)

\* { contains: term, mode: 'insensitive' }
ContainsInsensitive(s, term) ==
    \E k \in 0..(Len(s) - Len(term)) :
        SubSeq(ToLower(s), k + 1, k + Len(term)) = ToLower(term)

(* ------------------------------ queries ------------------------------- *)
\* orderBy: { createdAt: 'desc' } over the rows ids of the table bs
RECURSIVE OrderByCreatedAtDesc(_, _)
OrderByCreatedAtDesc(bs, ids) ==
    IF ids = {} THEN <<>>
    ELSE LET newest == CHOOSE i \in ids :
                \A j \in ids : \/ bs[i].createdAt > bs[j].createdAt
                               \/ bs[i].createdAt = bs[j].createdAt /\ i >= j
         IN  <<bs[newest]>> \o OrderByCreatedAtDesc(bs, ids \ {newest})

\* findMany({ where, skip, take, orderBy })
FindMany(bs, ids, skip, take) ==
    LET rows == OrderByCreatedAtDesc(bs, ids)
        last == IF skip + take < Len(rows) THEN skip + take ELSE Len(rows)
    IN  SubSeq(rows, skip + 1, last)

\* the quotient rounded down
FloorDiv(total, limit) == total \div limit

\* Math.ceil(total / limit)
CeilDiv(total, limit) ==
    IF total % limit = 0 THEN total \div limit ELSE (total \div limit) + 1

\* destructuring default: applies when the property is undefined
Default(params, k, d) == IF k \in DOMAIN params THEN params[k] ELSE d

\* the where clause of getBooks without isDeleted: false
GetBooksWhereAnyRow(bs, params) ==
    {i \in DOMAIN bs :
        /\ ("author" \in DOMAIN params /\ params.author # <<>>)
                => ContainsInsensitive(bs[i].author, params.author)
        /\ ("publishedYear" \in DOMAIN params /\ params.publishedYear # 0)
                => bs[i].publishedYear = params.publishedYear}

\* the where clause of getBooks, over the table bs
GetBooksWhere(bs, params) ==
    {i \in DOMAIN bs :
        /\ ~bs[i].isDeleted
        /\ ("author" \in DOMAIN params /\ params.author # <<>>)
                => ContainsInsensitive(bs[i].author, params.author)
        /\ ("publishedYear" \in DOMAIN params /\ params.publishedYear # 0)
                => bs[i].publishedYear = params.publishedYear}

\* the where clause of searchBooks, over the table bs
SearchBooksWhere(bs, params) ==
    LET searchTerm == Trim(params.query)
    IN  {i \in DOMAIN bs :
            /\ ~bs[i].isDeleted
            /\ \/ ContainsInsensitive(bs[i].title, searchTerm)
               \/ ContainsInsensitive(bs[i].author, searchTerm)}

\* the page getBooks and searchBooks return for the rows of a where clause
Paginated(bs, ids, params) ==
    LET page == Default(params, "page", 1)
        limit == Default(params, "limit", 10)
        skip == (page - 1) * limit
    IN  [books |-> FindMany(bs, ids, skip, limit),
         pagination |-> [page |-> page, limit |-> limit, total |-> Cardinality(ids),
                         totalPages |-> CeilDiv(Cardinality(ids), limit)]]

GetBooksResult(bs, params) == Paginated(bs, GetBooksWhere(bs, params), params)

SearchBooksResult(bs, params) == Paginated(bs, SearchBooksWhere(bs, params), params)

(* --------------------------- error boundary --------------------------- *)
\* an error boundary that knows no database error codes
errorHandlerByStatus(err) ==
    LET status == IF err.status # 0 THEN err.status ELSE 500
    IN  [httpStatus |-> status, level |-> IF status >= 500 THEN "error" ELSE "warn",
         body |-> [success |-> FALSE, status |-> status, message |-> err.message]]

\* errorHandler: the response and the log level for a thrown error
errorHandler(err) ==
    LET status == IF err.status # 0 THEN err.status ELSE 500
        level == IF status >= 500 THEN "error" ELSE "warn"
    IN  IF err.code = "P2002"
        THEN [httpStatus |-> 409, level |-> level,
              body |-> [success |-> FALSE, status |-> status,
                        message |-> PRISMA_ERRORS.DUPLICATE_CONSTRAINT.message]]
        ELSE IF err.code = "P2025"
        THEN [httpStatus |-> 404, level |-> level,
              body |-> [success |-> FALSE, status |-> status,
                        message |-> PRISMA_ERRORS.RECORD_NOT_FOUND.message]]
        ELSE [httpStatus |-> status, level |-> level,
              body |-> [success |-> FALSE, status |-> status, message |-> err.message]]

(* ------------------------------ requests ------------------------------ *)
\* the ids requests name: every row and the next id, which no row has yet
BookIds == 1..(Len(books) + 1)


Free(p) == calls[p].pc = "idle"

\* what the store and the queue held when the request arrived
Snapshot == [books |-> books, wishlists |-> wishlists, queue |-> queue]

\* a request takes the lowest free slot.  cost is 1 for a writing request
\* and 0 for a read: max bounds the writes
Begin(p, op, id, data, pc, pre, cost, max) ==
    /\ Free(p)
    /\ \A q \in Procs : q < p => ~Free(q)
    /\ ncalls + cost <= max
    /\ ncalls' = ncalls + cost
    /\ calls' = [calls EXCEPT ![p] =
            [Idle EXCEPT !.op = op, !.pc = pc, !.id = id, !.data = data, !.pre = pre]]
    /\ UNCHANGED <<books, wishlists, queue, clock, log>>

\* the controller has sent the response: the slot is free again
Respond(p) ==
    /\ calls[p].pc = "done"
    /\ calls' = [calls EXCEPT ![p] = Idle]
    /\ UNCHANGED <<books, wishlists, queue, clock, ncalls, log>>

Throw(p, e) ==
    calls' = [calls EXCEPT ![p].pc = "done", ![p].err = <<e>>]

Return(p, v) ==
    calls' = [calls EXCEPT ![p].pc = "done", ![p].ret = <<v>>]

(* BookService.createBook *)
CreateBegin(p, data, pre, max) ==
    Begin(p, "create", 0, data, "createFind", pre, 1, max)

CreateFind(p) ==
    /\ calls[p].pc = "createFind"
    /\ LET existingBook == FindFirstByIsbn(calls[p].data.isbn)
       IN  IF existingBook # <<>>
           THEN Throw(p, AppError(BOOK_ERRORS.DUPLICATE_ISBN))
           ELSE calls' = [calls EXCEPT ![p].pc = "createInsert"]
    /\ UNCHANGED <<books, wishlists, queue, clock, ncalls, log>>

CreateInsert(p) ==
    /\ calls[p].pc = "createInsert"
    /\ IF IsbnKeyViolated(0, calls[p].data.isbn)
       THEN /\ Throw(p, PrismaUniqueError)
            /\ UNCHANGED <<books, clock>>
       ELSE /\ Len(books) < MaxBooks
            /\ books' = Append(books, NewBook(calls[p].data))
            /\ clock' = clock + 1
            /\ Return(p, NewBook(calls[p].data))
    /\ UNCHANGED <<wishlists, queue, ncalls, log>>

(* BookService.getBookById *)
GetBegin(p, id, pre, max) ==
    Begin(p, "get", id, <<>>, "getFind", pre, 0, max)

GetFind(p) ==
    /\ calls[p].pc = "getFind"
    /\ LET book == FindFirstById(calls[p].id)
       IN  IF book = <<>>
           THEN Throw(p, AppError(BOOK_ERRORS.NOT_FOUND))
           ELSE Return(p, book[1])
    /\ UNCHANGED <<books, wishlists, queue, clock, ncalls, log>>

(* BookService.getBooks *)
ListBegin(p, params, pre, max) ==
    Begin(p, "list", 0, params, "listQuery", pre, 0, max)

ListQuery(p) ==
    /\ calls[p].pc = "listQuery"
    /\ Return(p, GetBooksResult(books, calls[p].data))
    /\ UNCHANGED <<books, wishlists, queue, clock, ncalls, log>>

(* BookService.searchBooks *)
SearchBegin(p, params, pre, max) ==
    Begin(p, "search", 0, params, "searchQuery", pre, 0, max)

\* searchQuery.trim() throws when params has no query property
SearchQuery(p) ==
    /\ calls[p].pc = "searchQuery"
    /\ IF "query" \notin DOMAIN calls[p].data
       THEN Throw(p, TypeError("Cannot read properties of undefined (reading 'trim')"))
       ELSE Return(p, SearchBooksResult(books, calls[p].data))
    /\ UNCHANGED <<books, wishlists, queue, clock, ncalls, log>>

(* BookService.updateBook *)
UpdateBegin(p, id, data, pre, max) ==
    Begin(p, "update", id, data, "updateFind", pre, 1, max)

\* updateBook looking its target up without the soft-delete filter
UpdateFindAnyRow(p) ==
    /\ calls[p].pc = "updateFind"
    /\ LET existingBook == FindById(calls[p].id)
           data == calls[p].data
       IN  IF existingBook = <<>>
           THEN Throw(p, AppError(BOOK_ERRORS.NOT_FOUND))
           ELSE calls' = [calls EXCEPT
                    ![p].existingBook = existingBook,
                    ![p].pc = IF "isbn" \in DOMAIN data /\ data.isbn # existingBook[1].isbn
                              THEN "updateDuplicate" ELSE "updateWrite"]
    /\ UNCHANGED <<books, wishlists, queue, clock, ncalls, log>>

UpdateFind(p) ==
    /\ calls[p].pc = "updateFind"
    /\ LET existingBook == FindFirstById(calls[p].id)
           data == calls[p].data
       IN  IF existingBook = <<>>
           THEN Throw(p, AppError(BOOK_ERRORS.NOT_FOUND))
           ELSE calls' = [calls EXCEPT
                    ![p].existingBook = existingBook,
                    ![p].pc = IF "isbn" \in DOMAIN data /\ data.isbn # existingBook[1].isbn
                              THEN "updateDuplicate" ELSE "updateWrite"]
    /\ UNCHANGED <<books, wishlists, queue, clock, ncalls, log>>

UpdateDuplicate(p) ==
    /\ calls[p].pc = "updateDuplicate"
    /\ LET duplicateBook == FindFirstByIsbn(calls[p].data.isbn)
       IN  IF duplicateBook # <<>>
           THEN Throw(p, AppError(BOOK_ERRORS.DUPLICATE_ISBN))
           ELSE calls' = [calls EXCEPT ![p].pc = "updateWrite"]
    /\ UNCHANGED <<books, wishlists, queue, clock, ncalls, log>>

\* a transition test that passes once per book only
StatusBecameAvailableOnce(existingBook, data) ==
    /\ existingBook.availabilityStatus = "Borrowed"
    /\ "availabilityStatus" \in DOMAIN data
    /\ data.availabilityStatus = "Available"
    /\ \A j \in DOMAIN queue : queue[j].data.bookId # existingBook.id

\* the transition test with its two sides swapped
StatusBecameBorrowed(existingBook, data) ==
    /\ existingBook.availabilityStatus = "Available"
    /\ "availabilityStatus" \in DOMAIN data
    /\ data.availabilityStatus = "Borrowed"

\* the transition test without the previous status
StatusIsAvailable(existingBook, data) ==
    /\ "availabilityStatus" \in DOMAIN data
    /\ data.availabilityStatus = "Available"

\* the transition test made on the row as it is stored when the write is made
StatusBecameAvailableInStore(existingBook, data) ==
    /\ books[existingBook.id].availabilityStatus = "Borrowed"
    /\ "availabilityStatus" \in DOMAIN data
    /\ data.availabilityStatus = "Available"

\* previousStatus === 'Borrowed' && newStatus === 'Available'
StatusBecameAvailable(existingBook, data) ==
    /\ existingBook.availabilityStatus = "Borrowed"
    /\ "availabilityStatus" \in DOMAIN data
    /\ data.availabilityStatus = "Available"

UpdateWrite(p) ==
    /\ calls[p].pc = "updateWrite"
    /\ LET bookId == calls[p].id
           data == calls[p].data
           updatedBook == Patched(books[bookId], data)
       IN  IF "isbn" \in DOMAIN data /\ IsbnKeyViolated(bookId, data.isbn)
           THEN /\ Throw(p, PrismaUniqueError)
                /\ UNCHANGED books
           ELSE /\ books' = [books EXCEPT ![bookId] = updatedBook]
                /\ IF StatusBecameAvailable(calls[p].existingBook[1], data)
                   THEN calls' = [calls EXCEPT ![p].pc = "updateEnqueue",
                                               ![p].ret = <<updatedBook>>]
                   ELSE Return(p, updatedBook)
    /\ UNCHANGED <<wishlists, queue, clock, ncalls, log>>

\* defaultJobOptions of the queue
defaultJobOptions ==
    [attempts |-> 3, backoff |-> [type |-> "exponential", delay |-> 2000]]

\* the job notificationQueue.add stores: the options of the call over the
\* queue's defaults, no attempt made yet, waiting for the consumer
NotificationJob(updatedBook) ==
    [id |-> Len(queue) + 1,
     name |-> "wishlist-notification",
     data |-> [bookId |-> updatedBook.id, bookTitle |-> updatedBook.title],
     opts |-> [priority |-> 1] @@ defaultJobOptions,
     attemptsMade |-> 0,
     state |-> "waiting"]

\* an updateBook that answers only when the consumer has run its job
UpdateEnqueueAndFinish(p) ==
    /\ calls[p].pc = "updateEnqueue"
    /\ Len(queue) < MaxJobs
    /\ queue' = Append(queue, [NotificationJob(calls[p].ret[1]) EXCEPT !.state = "completed"])
    /\ calls' = [calls EXCEPT ![p].pc = "done"]
    /\ UNCHANGED <<books, wishlists, clock, ncalls, log>>

UpdateEnqueue(p) ==
    /\ calls[p].pc = "updateEnqueue"
    /\ \/ /\ Len(queue) < MaxJobs
          /\ queue' = Append(queue, NotificationJob(calls[p].ret[1]))
          /\ calls' = [calls EXCEPT ![p].pc = "done"]
       \/ /\ calls' = [calls EXCEPT ![p].pc = "done", ![p].ret = <<>>,
                                    ![p].err = <<QueueError>>]
          /\ UNCHANGED queue
    /\ UNCHANGED <<books, wishlists, clock, ncalls, log>>

(* BookService.deleteBook *)
DeleteBegin(p, id, pre, max) ==
    Begin(p, "delete", id, <<>>, "deleteFind", pre, 1, max)

DeleteFind(p) ==
    /\ calls[p].pc = "deleteFind"
    /\ LET book == FindFirstById(calls[p].id)
       IN  IF book = <<>>
           THEN Throw(p, AppError(BOOK_ERRORS.NOT_FOUND))
           ELSE calls' = [calls EXCEPT ![p].pc = "deleteWrite"]
    /\ UNCHANGED <<books, wishlists, queue, clock, ncalls, log>>

\* a soft delete that forgets the timestamp
FlaggedDeleted(book, now) ==
    [book EXCEPT !.isDeleted = TRUE]

\* data: { isDeleted: true, deletedAt: new Date() }
SoftDeleted(book, now) ==
    [book EXCEPT !.isDeleted = TRUE, !.deletedAt = now]

DeleteWrite(p) ==
    /\ calls[p].pc = "deleteWrite"
    /\ books' = [books EXCEPT ![calls[p].id] = SoftDeleted(@, clock)]
    /\ calls' = [calls EXCEPT ![p].pc = "done"]
    /\ UNCHANGED <<wishlists, queue, clock, ncalls, log>>

(* rows of the wishlists table are written by another system *)
AddWishlist(max) ==
    /\ Len(wishlists) < MaxWishlists
    /\ ncalls < max
    /\ ncalls' = ncalls + 1
    /\ \E u \in Users, b \in DOMAIN books :
        /\ \A i \in DOMAIN wishlists : ~(wishlists[i].userId = u /\ wishlists[i].bookId = b)
        /\ wishlists' = Append(wishlists, [id |-> Len(wishlists) + 1, userId |-> u, bookId |-> b])
    /\ UNCHANGED <<books, queue, clock, calls, log>>

(* ----------------------- the notification worker ---------------------- *)
NOTIFICATION_MESSAGES ==
    [WISHLIST_PROCESSING_ERROR |-> <<"Error processing wishlist notifications">>]

\* `Notification prepared for user_id: ${userId}: Book [${bookTitle}] is now available.`
WISHLIST_AVAILABLE(bookTitle, userId) ==
    <<"Notification prepared for user_id: ", ToString(userId), ": Book [", bookTitle,
      "] is now available.">>

\* `Processed ${count} wishlist notifications for book: ${bookTitle}`
WISHLIST_PROCESSED(count, bookTitle) ==
    <<"Processed ", ToString(count), " wishlist notifications for book: ", bookTitle>>

\* the error a failing prisma.wishlist.findMany rejects with
QueryError ==
    [name |-> "PrismaClientKnownRequestError", message |-> "Can't reach database server",
     status |-> 0, code |-> "P1001"]

\* a query that leaves out the users a record was already emitted for
WishlistFindManyUnnotified(ws, bookId) ==
    LET told == {log[k].meta.userId :
                    k \in {i \in DOMAIN log : /\ "userId" \in DOMAIN log[i].meta
                                              /\ log[i].meta.bookId = bookId}}
        rows == SelectSeq(ws, LAMBDA w : w.bookId = bookId /\ w.userId \notin told)
    IN  [k \in DOMAIN rows |-> [userId |-> rows[k].userId]]

\* prisma.wishlist.findMany({ where: { bookId }, select: { userId: true } })
WishlistFindMany(ws, bookId) ==
    LET rows == SelectSeq(ws, LAMBDA w : w.bookId = bookId)
    IN  [k \in DOMAIN rows |-> [userId |-> rows[k].userId]]

\* a worker that notifies the first entry only
processFirstWishlistNotification(ws, bookId, bookTitle) ==
    LET found == WishlistFindMany(ws, bookId)
        first == SubSeq(found, 1, IF Len(found) > 0 THEN 1 ELSE 0)
    IN  [logs |->
            [k \in DOMAIN first |->
                [level |-> "info",
                 message |-> WISHLIST_AVAILABLE(bookTitle, first[k].userId),
                 meta |-> [userId |-> first[k].userId, bookId |-> bookId,
                           bookTitle |-> bookTitle]]]
            \o <<[level |-> "info",
                  message |-> WISHLIST_PROCESSED(Len(found), bookTitle),
                  meta |-> [bookId |-> bookId, bookTitle |-> bookTitle,
                            count |-> Len(found)]]>>,
         result |-> [processed |-> Len(found),
                     message |-> WISHLIST_PROCESSED(Len(found), bookTitle)]]

\* processWishlistNotifications when its query resolves over the table ws:
\* the records it logs, in order, and the value it returns
processWishlistNotifications(ws, bookId, bookTitle) ==
    LET found == WishlistFindMany(ws, bookId)
    IN  [logs |->
            [k \in DOMAIN found |->
                [level |-> "info",
                 message |-> WISHLIST_AVAILABLE(bookTitle, found[k].userId),
                 meta |-> [userId |-> found[k].userId, bookId |-> bookId,
                           bookTitle |-> bookTitle]]]
            \o <<[level |-> "info",
                  message |-> WISHLIST_PROCESSED(Len(found), bookTitle),
                  meta |-> [bookId |-> bookId, bookTitle |-> bookTitle,
                            count |-> Len(found)]]>>,
         result |-> [processed |-> Len(found),
                     message |-> WISHLIST_PROCESSED(Len(found), bookTitle)]]

\* a worker whose failure comes after it has told the first user
processWishlistNotificationsFailingLate(bookId, bookTitle, error) ==
    [logs |-> SubSeq(processWishlistNotifications(wishlists, bookId, bookTitle).logs, 1,
                     IF Len(WishlistFindMany(wishlists, bookId)) > 0 THEN 1 ELSE 0)
              \o <<[level |-> "error",
                    message |-> NOTIFICATION_MESSAGES.WISHLIST_PROCESSING_ERROR,
                    meta |-> [bookId |-> bookId, bookTitle |-> bookTitle,
                              error |-> error.message]]>>,
     thrown |-> error]

\* processWishlistNotifications when its query rejects with error: the
\* record the catch block logs, and the error it throws again
processWishlistNotificationsFailing(bookId, bookTitle, error) ==
    [logs |-> <<[level |-> "error",
                 message |-> NOTIFICATION_MESSAGES.WISHLIST_PROCESSING_ERROR,
                 meta |-> [bookId |-> bookId, bookTitle |-> bookTitle,
                           error |-> error.message]]>>,
     thrown |-> error]

\* notificationQueue.on('completed')
OnCompleted(job) ==
    [level |-> "info", message |-> <<"Notification job completed">>,
     meta |-> [jobId |-> job.id, bookId |-> job.data.bookId,
               bookTitle |-> job.data.bookTitle]]

\* notificationQueue.on('failed')
OnFailed(job, err) ==
    [level |-> "error", message |-> <<"Notification job failed">>,
     meta |-> [jobId |-> job.id, bookId |-> job.data.bookId,
               bookTitle |-> job.data.bookTitle, error |-> err.message]]

\* the processor returned: the job is completed
MoveToCompleted(job) == [job EXCEPT !.state = "completed"]

\* a queue that retries a failing job for ever
MoveToDelayed(job) ==
    [job EXCEPT !.attemptsMade = @ + 1, !.state = "delayed"]

\* the processor threw: the attempt is counted; the job is retried after its
\* backoff while attempts are left, and failed for good otherwise
MoveToFailed(job) ==
    [job EXCEPT !.attemptsMade = @ + 1,
                !.state = IF job.attemptsMade + 1 < job.opts.attempts
                          THEN "delayed" ELSE "failed"]

\* a consumer that never comes back to a job it has to retry
WorkerTakeWaiting(j) ==
    /\ j \in DOMAIN queue
    /\ queue[j].state = "waiting"
    /\ \A k \in DOMAIN queue : queue[k].state # "active"
    /\ queue' = [queue EXCEPT ![j].state = "active"]
    /\ UNCHANGED <<books, wishlists, clock, calls, ncalls, log>>

\* the consumer (concurrency 1) takes a job that waits or whose backoff is over
WorkerTake(j) ==
    /\ j \in DOMAIN queue
    /\ queue[j].state \in {"waiting", "delayed"}
    /\ \A k \in DOMAIN queue : queue[k].state # "active"
    /\ queue' = [queue EXCEPT ![j].state = "active"]
    /\ UNCHANGED <<books, wishlists, clock, calls, ncalls, log>>

\* the query of the active job resolved
WorkerSucceed(j) ==
    /\ j \in DOMAIN queue
    /\ queue[j].state = "active"
    /\ LET run == processWishlistNotifications(wishlists, queue[j].data.bookId,
                                               queue[j].data.bookTitle)
       IN  log' = log \o run.logs \o <<OnCompleted(queue[j])>>
    /\ queue' = [queue EXCEPT ![j] = MoveToCompleted(@)]
    /\ UNCHANGED <<books, wishlists, clock, calls, ncalls>>

\* the query of the active job rejected
WorkerFail(j) ==
    /\ j \in DOMAIN queue
    /\ queue[j].state = "active"
    /\ LET run == processWishlistNotificationsFailing(queue[j].data.bookId,
                                                      queue[j].data.bookTitle, QueryError)
       IN  log' = log \o run.logs \o <<OnFailed(queue[j], run.thrown)>>
    /\ queue' = [queue EXCEPT ![j] = MoveToFailed(@)]
    /\ UNCHANGED <<books, wishlists, clock, calls, ncalls>>

Worker(j) == WorkerTake(j) \/ WorkerSucceed(j) \/ WorkerFail(j)

(* ----------------------------- the routes ----------------------------- *)
\* the two BookController sources of the repository
Controllers == {"bookController.ts", "part_002"}

BOOK_MESSAGES ==
    [CREATED |-> "Book created successfully",
     RETRIEVED |-> "Book retrieved successfully",
     RETRIEVED_ALL |-> "Books retrieved successfully",
     UPDATED |-> "Book updated successfully",
     DELETED |-> "Book deleted successfully",
     SEARCH_COMPLETED |-> "Search completed successfully"]

GENERAL_ERRORS ==
    [INTERNAL_SERVER_ERROR |-> "Internal server error", VALIDATION_FAILED |-> "Validation failed"]

Digits == <<"0", "1", "2", "3", "4", "5", "6", "7", "8", "9">>

IsDigits(s) == \A k \in DOMAIN s : \E n \in DOMAIN Digits : Digits[n] = s[k]

\* parseInt(s, 10) of a string of digits
RECURSIVE ParseInt(_)
ParseInt(s) ==
    IF Len(s) = 0 THEN 0
    ELSE 10 * ParseInt(SubSeq(s, 1, Len(s) - 1))
            + (CHOOSE n \in DOMAIN Digits : Digits[n] = s[Len(s)]) - 1

\* new Date().getFullYear()
ThisYear == 2026

\* isInt({ min, max }) on a query-string value; max 0 stands for no max
IsIntString(s, min, max) ==
    /\ Len(s) > 0
    /\ IsDigits(s)
    /\ Len(s) = 1 \/ s[1] # "0"
    /\ ParseInt(s) >= min
    /\ max # 0 => ParseInt(s) <= max

\* isInt({ min, max }) on a JSON number
IsInt(n, min, max) == n \in min..max

\* matches(/^(?:\d{10}|\d{13})$/)
IsbnPattern(s) == IsDigits(s) /\ Len(s) \in {10, 13}

\* trim().notEmpty().isLength({ min: 1, max }) on a field that may be missing
NotEmptyText(o, k, max) == k \in DOMAIN o /\ Len(Trim(o[k])) \in 1..max

\* validateCreateBook without the check of the ISBN pattern
validateCreateBookAnyIsbn(body) ==
    {k \in {"title"} : ~NotEmptyText(body, k, 500)}
    \cup {k \in {"author"} : ~NotEmptyText(body, k, 200)}
    \cup {k \in {"isbn"} : ~("isbn" \in DOMAIN body /\ Trim(body.isbn) # <<>>)}
    \cup {k \in {"publishedYear"} :
            ~(k \in DOMAIN body /\ IsInt(body[k], 1000, ThisYear + 1))}
    \cup {k \in {"availabilityStatus"} :
            k \in DOMAIN body /\ body[k] \notin {"Available", "Borrowed"}}

\* validateCreateBook: the fields express-validator reports
validateCreateBook(body) ==
    {k \in {"title"} : ~NotEmptyText(body, k, 500)}
    \cup {k \in {"author"} : ~NotEmptyText(body, k, 200)}
    \cup {k \in {"isbn"} :
            ~("isbn" \in DOMAIN body /\ Trim(body.isbn) # <<>> /\ IsbnPattern(Trim(body.isbn)))}
    \cup {k \in {"publishedYear"} :
            ~(k \in DOMAIN body /\ IsInt(body[k], 1000, ThisYear + 1))}
    \cup {k \in {"availabilityStatus"} :
            k \in DOMAIN body /\ body[k] \notin {"Available", "Borrowed"}}

\* validateUpdateBook: every field is optional()
validateUpdateBook(body) ==
    {k \in {"title"} : k \in DOMAIN body /\ ~NotEmptyText(body, k, 500)}
    \cup {k \in {"author"} : k \in DOMAIN body /\ ~NotEmptyText(body, k, 200)}
    \cup {k \in {"isbn"} :
            k \in DOMAIN body /\ ~(Trim(body.isbn) # <<>> /\ IsbnPattern(Trim(body.isbn)))}
    \cup {k \in {"publishedYear"} :
            k \in DOMAIN body /\ ~IsInt(body[k], 1000, ThisYear + 1)}
    \cup {k \in {"availabilityStatus"} :
            k \in DOMAIN body /\ body[k] \notin {"Available", "Borrowed"}}

\* the page and limit chains validateQueryParams and validateSearch share
validatePaging(query) ==
    {k \in {"page"} : k \in DOMAIN query /\ ~IsIntString(query[k], 1, 0)}
    \cup {k \in {"limit"} : k \in DOMAIN query /\ ~IsIntString(query[k], 1, 100)}

validateQueryParams(query) ==
    validatePaging(query)
    \cup {k \in {"author"} : k \in DOMAIN query /\ Trim(query[k]) = <<>>}
    \cup {k \in {"publishedYear"} :
            k \in DOMAIN query /\ ~IsIntString(query[k], 1000, ThisYear + 1)}

validateSearch(query) ==
    {k \in {"q"} : ~NotEmptyText(query, k, 200)} \cup validatePaging(query)

\* the trim() sanitizers write the trimmed value back into the request
Sanitized(o, ks) ==
    [k \in DOMAIN o |-> IF k \in ks THEN Trim(o[k]) ELSE o[k]]

\* what validationErrorHandler passes to res.status(400).json
ValidationFailed(errors) ==
    [name |-> "ValidationFailed", message |-> GENERAL_ERRORS.VALIDATION_FAILED,
     status |-> 400, code |-> "", errors |-> errors]

\* BookController.getBooks: the params it builds from req.query
getBooksParams(query) ==
    [page |-> IF "page" \in DOMAIN query THEN ParseInt(query.page) ELSE 1,
     limit |-> IF "limit" \in DOMAIN query THEN ParseInt(query.limit) ELSE 10]
    @@ (IF "author" \in DOMAIN query THEN [author |-> query.author] ELSE <<>>)
    @@ (IF "publishedYear" \in DOMAIN query
        THEN [publishedYear |-> ParseInt(query.publishedYear)] ELSE <<>>)

\* BookController.searchBooks: bookController.ts stores the q value under q,
\* part_002 stores it under query
searchBooksParams(v, query) ==
    (IF v = "bookController.ts" THEN [q |-> query.q] ELSE [query |-> query.q])
    @@ [page |-> IF "page" \in DOMAIN query THEN ParseInt(query.page) ELSE 1,
        limit |-> IF "limit" \in DOMAIN query THEN ParseInt(query.limit) ELSE 10]

\* res.status(status).json(body)
Json(status, body) ==
    [status |-> status, headers |-> ("Content-Type" :> "application/json"), body |-> body]

\* what next(error) makes errorHandler send
NextError(err) == Json(errorHandler(err).httpStatus, errorHandler(err).body)

\* the response of controller v to the finished call c
Response(v, c) ==
    IF c.err # <<>> /\ c.err[1].name = "ValidationFailed"
    THEN Json(400, [success |-> FALSE, message |-> c.err[1].message,
                    errors |-> c.err[1].errors])
    ELSE IF c.err # <<>> THEN NextError(c.err[1])
    ELSE IF c.op = "create"
    THEN Json(201, [success |-> TRUE, message |-> BOOK_MESSAGES.CREATED, data |-> c.ret[1]])
    ELSE IF c.op = "list"
    THEN Json(200, [success |-> TRUE, message |-> BOOK_MESSAGES.RETRIEVED_ALL,
                    data |-> c.ret[1].books, pagination |-> c.ret[1].pagination])
    ELSE IF c.op = "get"
    THEN Json(200, [success |-> TRUE, message |-> BOOK_MESSAGES.RETRIEVED, data |-> c.ret[1]])
    ELSE IF c.op = "update"
    THEN Json(200, [success |-> TRUE, message |-> BOOK_MESSAGES.UPDATED, data |-> c.ret[1]])
    ELSE IF c.op = "delete"
    THEN IF v = "bookController.ts"
         THEN NextError(TypeError("Cannot read properties of undefined (reading 'message')"))
         ELSE Json(200, [success |-> TRUE, message |-> BOOK_MESSAGES.DELETED])
    ELSE Json(200, [success |-> TRUE, message |-> BOOK_MESSAGES.SEARCH_COMPLETED,
                    data |-> c.ret[1].books, pagination |-> c.ret[1].pagination])

\* validationErrorHandler found errors: it answers and the chain stops there
Reject(p, route, id, data, errors, pre) ==
    /\ Free(p)
    /\ \A q \in Procs : q < p => ~Free(q)
    /\ calls' = [calls EXCEPT ![p] =
            [Idle EXCEPT !.op = route, !.pc = "done", !.id = id, !.data = data,
                         !.err = <<ValidationFailed(errors)>>, !.pre = pre]]
    /\ UNCHANGED <<books, wishlists, queue, clock, ncalls, log>>

\* router.post('/', validateCreateBook, createBook)
PostBooks(p, body, pre, max) ==
    IF validateCreateBook(body) # {}
    THEN Reject(p, "POST /books", 0, body, validateCreateBook(body), pre)
    ELSE CreateBegin(p, Sanitized(body, {"title", "author", "isbn"}), pre, max)

\* router.get('/', validateQueryParams, getBooks)
GetBooks(p, query, pre, max) ==
    IF validateQueryParams(query) # {}
    THEN Reject(p, "GET /books", 0, query, validateQueryParams(query), pre)
    ELSE ListBegin(p, getBooksParams(Sanitized(query, {"author"})), pre, max)

\* router.get('/search', validateSearch, searchBooks)
GetSearch(p, v, query, pre, max) ==
    IF validateSearch(query) # {}
    THEN Reject(p, "GET /books/search", 0, query, validateSearch(query), pre)
    ELSE SearchBegin(p, searchBooksParams(v, Sanitized(query, {"q"})), pre, max)

\* router.get('/:id', getBookById)
GetBook(p, id, pre, max) == GetBegin(p, ParseInt(id), pre, max)

\* router.put('/:id', validateUpdateBook, updateBook)
PutBook(p, id, body, pre, max) ==
    IF validateUpdateBook(body) # {}
    THEN Reject(p, "PUT /books/:id", ParseInt(id), body, validateUpdateBook(body), pre)
    ELSE UpdateBegin(p, ParseInt(id), Sanitized(body, {"title", "author", "isbn"}), pre, max)

\* router.delete('/:id', deleteBook)
DeleteBook(p, id, pre, max) == DeleteBegin(p, ParseInt(id), pre, max)

(* --------------------------- specifications --------------------------- *)
\* the requests clients send
Reads(p, pre, max) ==
    \/ \E id \in BookIds : GetBegin(p, id, pre, max)
    \/ \E params \in BookQueryParams : ListBegin(p, params, pre, max)
    \/ \E params \in SearchQueryParams : SearchBegin(p, params, pre, max)

Writes(p, titles, newTitles, pre, max) ==
    \/ \E data \in BookCreateInput(titles) : CreateBegin(p, data, pre, max)
    \/ \E id \in BookIds, data \in BookUpdateInput(newTitles) : UpdateBegin(p, id, data, pre, max)
    \/ \E id \in BookIds : DeleteBegin(p, id, pre, max)

Steps(p) ==
    \/ CreateFind(p)
    \/ CreateInsert(p)
    \/ GetFind(p)
    \/ ListQuery(p)
    \/ SearchQuery(p)
    \/ UpdateFind(p)
    \/ UpdateDuplicate(p)
    \/ UpdateWrite(p)
    \/ UpdateEnqueue(p)
    \/ DeleteFind(p)
    \/ DeleteWrite(p)
    \/ Respond(p)

AllFree == \A q \in Procs : Free(q)

\* requests served one at a time
Next ==
    \/ AllFree /\ \E p \in Procs : Reads(p, Snapshot, MaxCalls)
    \/ AllFree /\ \E p \in Procs : Writes(p, Titles, Titles, Snapshot, MaxCalls)
    \/ AllFree /\ AddWishlist(MaxCalls)
    \/ \E p \in Procs : Steps(p)

Spec == Init /\ [][Next]_vars

\* writing requests of two clients interleaved at their await points
ConcSteps(p) ==
    \/ CreateFind(p)
    \/ CreateInsert(p)
    \/ UpdateFind(p)
    \/ UpdateDuplicate(p)
    \/ UpdateWrite(p)
    \/ UpdateEnqueue(p)
    \/ DeleteFind(p)
    \/ DeleteWrite(p)
    \/ Respond(p)

NextConc ==
    \/ \E p \in Procs : Writes(p, ConcTitles, {}, <<>>, MaxConcCalls)
    \/ \E p \in Procs : ConcSteps(p)

SpecConc == Init /\ [][NextConc]_vars

\* requests served one at a time while the consumer works through the queue
StatusUpdates == {[availabilityStatus |-> s] : s \in Statuses}

WorkerSteps(p) ==
    \/ CreateFind(p)
    \/ CreateInsert(p)
    \/ UpdateFind(p)
    \/ UpdateWrite(p)
    \/ UpdateEnqueue(p)
    \/ Respond(p)

NextWorker ==
    \/ AllFree /\ \E p \in Procs, data \in BookCreateInput(ConcTitles) :
            CreateBegin(p, data, Snapshot, MaxWorkerCalls)
    \/ AllFree /\ \E p \in Procs, id \in BookIds, data \in StatusUpdates :
            UpdateBegin(p, id, data, Snapshot, MaxWorkerCalls)
    \/ AllFree /\ AddWishlist(MaxWorkerCalls)
    \/ \E p \in Procs : WorkerSteps(p)
    \/ \E j \in 1..MaxJobs : Worker(j)

SpecWorker == Init /\ [][NextWorker]_vars

\* the life of one book: its creation, its wishlist entries, its status
\* changes, and the consumer working through the jobs they add
OneBookCreates == {data \in BookCreateInput(ConcTitles) : data.isbn = Isbn13("1")}

NextOneBook ==
    \/ AllFree /\ \E p \in Procs, data \in OneBookCreates :
            CreateBegin(p, data, Snapshot, MaxFairCalls)
    \/ AllFree /\ \E p \in Procs, id \in DOMAIN books, data \in StatusUpdates :
            UpdateBegin(p, id, data, Snapshot, MaxFairCalls)
    \/ AllFree /\ AddWishlist(MaxFairCalls)
    \/ \E p \in Procs : WorkerSteps(p)
    \/ \E j \in 1..MaxJobs : Worker(j)

\* the consumer keeps polling the queue
SpecWorkerFair == Init /\ [][NextOneBook]_vars /\ WF_vars(\E j \in 1..MaxJobs : Worker(j))

\* the requests clients send to the routes, some of them invalid
PaddedTitles == {<<" ", "e">>}
BadTitles == {<<" ">>}
BadISBNs == {<<"1", "2", "3">>, Isbn13("X")}
BadYears == {999, 3000}
BadStatuses == {"Lost"}
PageStrings == {<<"2">>, <<"0">>}
LimitStrings == {<<"1">>, <<"0">>, <<"1", "0", "1">>}
YearStrings == {<<"1", "9", "4", "9">>, <<"9", "9", "9">>}
BlankQueries == {<<" ">>}

\* a request body with one of its fields replaced
With(o, k, v) == [f \in DOMAIN o \cup {k} |-> IF f = k THEN v ELSE o[f]]

CreateBodies ==
    BookCreateInput(ConcTitles \cup PaddedTitles)
    \cup {With(b, "title", t) : b \in BookCreateInput(ConcTitles), t \in BadTitles}
    \cup {With(b, "isbn", i) : b \in BookCreateInput(ConcTitles), i \in BadISBNs}
    \cup {With(b, "publishedYear", y) : b \in BookCreateInput(ConcTitles), y \in BadYears}
    \cup {With(b, "availabilityStatus", x) : b \in BookCreateInput(ConcTitles), x \in BadStatuses}

UpdateBodies ==
    BookUpdateInput({})
    \cup {i @@ x : i \in Opt("isbn", BadISBNs), x \in Opt("availabilityStatus", BadStatuses)}
    \cup {[publishedYear |-> y] : y \in BadYears}

ListQueries ==
    {pg @@ l @@ a :
        pg \in Opt("page", PageStrings), l \in Opt("limit", LimitStrings),
        a \in Opt("author", AuthorFilters)}
    \cup {[publishedYear |-> y] : y \in YearStrings}

SearchQueries ==
    {q @@ pg @@ l :
        q \in Opt("q", Queries \cup BlankQueries),
        pg \in Opt("page", PageStrings), l \in Opt("limit", LimitStrings)}

IdStrings == {<<ToString(id)>> : id \in BookIds}

NextHttp ==
    \/ AllFree /\ \E p \in Procs, body \in CreateBodies :
            PostBooks(p, body, Snapshot, MaxHttpCalls)
    \/ AllFree /\ \E p \in Procs, query \in ListQueries :
            GetBooks(p, query, Snapshot, MaxHttpCalls)
    \/ AllFree /\ \E p \in Procs, v \in Controllers, query \in SearchQueries :
            GetSearch(p, v, query, Snapshot, MaxHttpCalls)
    \/ AllFree /\ \E p \in Procs, id \in IdStrings :
            GetBook(p, id, Snapshot, MaxHttpCalls)
    \/ AllFree /\ \E p \in Procs, id \in IdStrings, body \in UpdateBodies :
            PutBook(p, id, body, Snapshot, MaxHttpCalls)
    \/ AllFree /\ \E p \in Procs, id \in IdStrings :
            DeleteBook(p, id, Snapshot, MaxHttpCalls)
    \/ \E p \in Procs : Steps(p)

SpecHttp == Init /\ [][NextHttp]_vars

(* ------------------------------ properties ---------------------------- *)
Done(p, op) == calls[p].pc = "done" /\ calls[p].op = op

Succeeded(c) == c.err = <<>>

FailsWith(c, status) == c.err # <<>> /\ errorHandler(c.err[1]).httpStatus = status

Live(bs, id) == id \in DOMAIN bs /\ ~bs[id].isDeleted

Deleted(bs, id) == id \in DOMAIN bs /\ bs[id].isDeleted

\* the request asks for Available and the stored row was Borrowed on arrival
BorrowedToAvailable(c) ==
    /\ Live(c.pre.books, c.id)
    /\ c.pre.books[c.id].availabilityStatus = "Borrowed"
    /\ "availabilityStatus" \in DOMAIN c.data
    /\ c.data.availabilityStatus = "Available"

\* the table with its soft-deleted rows physically removed
LiveRows(bs) == [i \in {j \in DOMAIN bs : ~bs[j].isDeleted} |-> bs[i]]

\* C1: a successful update of a stored-Borrowed book to Available adds exactly
\* one 'wishlist-notification' job to the queue, carrying the id and the
\* post-update title of the updated row.
C1_BorrowedToAvailableEnqueuesOneJob ==
    \A p \in Procs :
        LET c == calls[p] IN
        (Done(p, "update") /\ Succeeded(c) /\ BorrowedToAvailable(c)) =>
            /\ Len(queue) = Len(c.pre.queue) + 1
            /\ SubSeq(queue, 1, Len(c.pre.queue)) = c.pre.queue
            /\ queue[Len(queue)].name = "wishlist-notification"
            /\ queue[Len(queue)].data.bookId = c.id
            /\ queue[Len(queue)].data.bookTitle = books[c.id].title

\* a Borrowed -> Available update that also renamed the book has returned
C1_Witness ==
    \E p \in Procs :
        /\ Done(p, "update") /\ Succeeded(calls[p]) /\ BorrowedToAvailable(calls[p])
        /\ "title" \in DOMAIN calls[p].data
        /\ calls[p].data.title # calls[p].pre.books[calls[p].id].title
        /\ Len(queue) = 1

\* C2: a finished request adds no job to the queue when it is a create, read,
\* list, search or delete, an update answered NotFound or Conflict, or an
\* update whose (stored status, requested status) is not (Borrowed, Available).
C2_OtherRequestsEnqueueNothing ==
    \A p \in Procs :
        LET c == calls[p] IN
        (/\ c.pc = "done"
         /\ \/ c.op # "update"
            \/ FailsWith(c, 404)
            \/ FailsWith(c, 409)
            \/ ~BorrowedToAvailable(c)) => queue = c.pre.queue

\* an update that asks an Available book to be Available has returned
C2_Witness ==
    \E p \in Procs :
        LET c == calls[p] IN
        /\ Done(p, "update") /\ Succeeded(c)
        /\ Live(c.pre.books, c.id)
        /\ c.pre.books[c.id].availabilityStatus = "Available"
        /\ "availabilityStatus" \in DOMAIN c.data
        /\ c.data.availabilityStatus = "Available"

\* C3: a create whose ISBN a non-deleted book holds on arrival fails with the
\* 409 AppError 'Book with this ISBN already exists' and the table is as before.
C3_DuplicateIsbnCreateConflicts ==
    \A p \in Procs :
        LET c == calls[p] IN
        (/\ Done(p, "create")
         /\ \E i \in DOMAIN c.pre.books :
                Live(c.pre.books, i) /\ c.pre.books[i].isbn = c.data.isbn) =>
            /\ c.err = <<AppError(BOOK_ERRORS.DUPLICATE_ISBN)>>
            /\ c.err[1].status = 409
            /\ c.err[1].message = "Book with this ISBN already exists"
            /\ errorHandler(c.err[1]).httpStatus = 409
            /\ books = c.pre.books

\* a create with the ISBN of a live book has been answered
C3_Witness ==
    \E p \in Procs :
        LET c == calls[p] IN
        /\ Done(p, "create")
        /\ \E i \in DOMAIN c.pre.books :
                Live(c.pre.books, i) /\ c.pre.books[i].isbn = c.data.isbn
        /\ FailsWith(c, 409)

\* C4: a create whose ISBN is held only by soft-deleted books succeeds and
\* appends a new non-deleted row with that ISBN.
C4_DeletedIsbnIsReusable ==
    \A p \in Procs :
        LET c == calls[p] IN
        (/\ Done(p, "create")
         /\ \E i \in DOMAIN c.pre.books :
                Deleted(c.pre.books, i) /\ c.pre.books[i].isbn = c.data.isbn
         /\ \A i \in DOMAIN c.pre.books :
                Live(c.pre.books, i) => c.pre.books[i].isbn # c.data.isbn) =>
            /\ Succeeded(c)
            /\ Len(books) = Len(c.pre.books) + 1
            /\ books[Len(books)].isbn = c.data.isbn
            /\ ~books[Len(books)].isDeleted

\* C5: no two non-deleted books share an ISBN, whatever the interleaving.
C5_LiveIsbnsUnique ==
    \A i, j \in DOMAIN books :
        (i # j /\ ~books[i].isDeleted /\ ~books[j].isDeleted) => books[i].isbn # books[j].isbn

\* two creates of one ISBN both passed the pre-check: one inserted, the other
\* was stopped by the index
C5_Witness ==
    \E p, q \in Procs :
        /\ p # q
        /\ Done(p, "create") /\ Done(q, "create")
        /\ calls[p].data.isbn = calls[q].data.isbn
        /\ Succeeded(calls[p])
        /\ calls[q].err = <<PrismaUniqueError>>
        /\ \A i \in DOMAIN books : ~books[i].isDeleted

\* C6: read-by-id of a soft-deleted book fails with NotFound, and list and
\* search return what they would return had the soft-deleted rows been
\* physically removed: no such row in the page, none counted in total.
C6_DeletedBooksAreInvisible ==
    \A p \in Procs :
        LET c == calls[p] IN
        /\ (Done(p, "get") /\ Deleted(c.pre.books, c.id)) =>
                c.err = <<AppError(BOOK_ERRORS.NOT_FOUND)>>
        /\ Done(p, "list") =>
                /\ c.ret[1] = GetBooksResult(LiveRows(books), c.data)
                /\ \A k \in DOMAIN c.ret[1].books : ~books[c.ret[1].books[k].id].isDeleted
                /\ c.ret[1].pagination.total <= Cardinality(DOMAIN LiveRows(books))
        /\ Done(p, "search") =>
                /\ c.ret[1] = SearchBooksResult(LiveRows(books), c.data)
                /\ \A k \in DOMAIN c.ret[1].books : ~books[c.ret[1].books[k].id].isDeleted
                /\ c.ret[1].pagination.total <= Cardinality(DOMAIN LiveRows(books))

\* an unfiltered list has returned the one live book of a table that also
\* holds a soft-deleted one
C6_Witness ==
    \E p \in Procs :
        /\ Done(p, "list")
        /\ calls[p].data = <<>>
        /\ \E i, j \in DOMAIN books : books[i].isDeleted /\ ~books[j].isDeleted
        /\ calls[p].ret[1].pagination.total = 1
        /\ Len(calls[p].ret[1].books) = 1

\* C7: a delete of an id that is absent or already soft-deleted fails with the
\* 404 AppError 'Book not found' and changes nothing; a delete of a live book
\* succeeds and leaves it soft-deleted, so a second delete of it fails.
C7_DeleteOfMissingIsNotFound ==
    \A p \in Procs :
        LET c == calls[p] IN
        /\ (Done(p, "delete") /\ ~Live(c.pre.books, c.id)) =>
                /\ c.err = <<AppError(BOOK_ERRORS.NOT_FOUND)>>
                /\ c.err[1].status = 404
                /\ c.err[1].message = "Book not found"
                /\ books = c.pre.books
                /\ wishlists = c.pre.wishlists
                /\ queue = c.pre.queue
        /\ (Done(p, "delete") /\ Live(c.pre.books, c.id)) =>
                /\ Succeeded(c)
                /\ Deleted(books, c.id)

\* a second delete of a book an earlier delete had soft-deleted was answered
C7_Witness ==
    \E p \in Procs :
        LET c == calls[p] IN
        /\ Done(p, "delete")
        /\ Deleted(c.pre.books, c.id)
        /\ c.pre.books[c.id].deletedAt # NULL
        /\ FailsWith(c, 404)

C9_UpdateOfMissingIsNotFound ==
    \A p \in Procs :
        LET c == calls[p] IN
        (Done(p, "update") /\ ~Live(c.pre.books, c.id)) =>
            /\ c.err = <<AppError(BOOK_ERRORS.NOT_FOUND)>>
            /\ c.err[1].status = 404
            /\ c.err[1].message = "Book not found"
            /\ books = c.pre.books
            /\ queue = c.pre.queue

\* an update that asks a soft-deleted Borrowed book to become Available was
\* answered
C9_Witness ==
    \E p \in Procs :
        LET c == calls[p] IN
        /\ Done(p, "update")
        /\ Deleted(c.pre.books, c.id)
        /\ c.pre.books[c.id].availabilityStatus = "Borrowed"
        /\ "availabilityStatus" \in DOMAIN c.data
        /\ c.data.availabilityStatus = "Available"

\* another live row / only soft-deleted rows hold the ISBN the update asks for
IsbnHeldByLiveOther(c) ==
    \E i \in DOMAIN c.pre.books :
        i # c.id /\ Live(c.pre.books, i) /\ c.pre.books[i].isbn = c.data.isbn

\* C10: an update to an ISBN of another non-deleted book fails with Conflict
\* and leaves the table unchanged; an update to the book's own ISBN or to an
\* ISBN held only by soft-deleted books does not fail with Conflict.
C10_UpdateIsbnConflict ==
    \A p \in Procs :
        LET c == calls[p] IN
        (Done(p, "update") /\ Live(c.pre.books, c.id) /\ "isbn" \in DOMAIN c.data) =>
            /\ (c.data.isbn # c.pre.books[c.id].isbn /\ IsbnHeldByLiveOther(c)) =>
                    (FailsWith(c, 409) /\ books = c.pre.books)
            /\ (c.data.isbn = c.pre.books[c.id].isbn \/ ~IsbnHeldByLiveOther(c)) =>
                    ~FailsWith(c, 409)

\* the records of log that carry a notification for one user / a summary
PerUser(records) == {k \in DOMAIN records : "userId" \in DOMAIN records[k].meta}

Summaries(records) == {k \in DOMAIN records : "count" \in DOMAIN records[k].meta}

\* C11: a worker run that completes for a book with N wishlist entries at the
\* time of its query emits exactly N per-user records, one per entry, each
\* with the entry's userId, the bookId, the title and the message
\* 'Notification prepared for user_id: {userId}: Book [{title}] is now
\* available.', then exactly one summary record, and returns processed = N
\* (for N = 0: no per-user record, processed = 0).
C11_WorkerEmitsOneRecordPerEntry ==
    [][\A j \in DOMAIN queue :
        (queue[j].state = "active" /\ queue'[j].state = "completed") =>
            LET bookId == queue[j].data.bookId
                title == queue[j].data.bookTitle
                entries == {w \in DOMAIN wishlists : wishlists[w].bookId = bookId}
                N == Cardinality(entries)
                emitted == SubSeq(log', Len(log) + 1, Len(log'))
            IN  /\ PerUser(emitted) = 1..N
                /\ \A w \in entries :
                        Cardinality({k \in PerUser(emitted) :
                            emitted[k].meta.userId = wishlists[w].userId}) = 1
                /\ \A k \in PerUser(emitted) :
                        /\ emitted[k].meta.bookId = bookId
                        /\ emitted[k].meta.bookTitle = title
                        /\ emitted[k].message =
                                <<"Notification prepared for user_id: ",
                                  ToString(emitted[k].meta.userId),
                                  ": Book [", title, "] is now available.">>
                /\ Summaries(emitted) = {N + 1}
                /\ emitted[N + 1].meta.count = N
                /\ processWishlistNotifications(wishlists, bookId, title).result.processed = N
      ]_vars

\* the job of a book wishlisted by users 7 and 9 completed: the log holds
\* their two records and then the summary that counts 2
C11_Witness ==
    \E j \in DOMAIN queue :
        /\ queue[j].state = "completed"
        /\ Len(log) >= 3
        /\ PerUser(log) = {1, 2}
        /\ {log[1].meta.userId, log[2].meta.userId} = {7, 9}
        /\ log[1].meta.bookId = queue[j].data.bookId
        /\ "count" \in DOMAIN log[3].meta
        /\ log[3].meta.count = 2

\* C12: an attempt whose query fails logs the error and throws it again, and
\* that counts as one failed attempt of the job; an attempt starts only
\* after fewer than three failed ones, the third failed attempt leaves the
\* job permanently failed, and a completed or permanently failed job never
\* changes again.
C12_AtMostThreeAttempts ==
    [][\A j \in DOMAIN queue :
        LET before == queue[j]
            after == queue'[j]
        IN  /\ (before.state \in {"waiting", "delayed"} /\ after.state = "active") =>
                    before.attemptsMade < 3
            /\ (before.state = "active" /\ after.state \notin {"active", "completed"}) =>
                    /\ after.attemptsMade = before.attemptsMade + 1
                    /\ after.state = IF after.attemptsMade = 3 THEN "failed" ELSE "delayed"
                    /\ Len(log') = Len(log) + 2
                    /\ log'[Len(log) + 1].level = "error"
                    /\ log'[Len(log) + 1].meta.error = QueryError.message
                    /\ log'[Len(log) + 2].meta.jobId = before.id
                    /\ log'[Len(log) + 2].meta.error = QueryError.message
            /\ (before.state = "active" /\ after.state = "completed") =>
                    after.attemptsMade = before.attemptsMade
            /\ before.state \in {"completed", "failed"} => after = before
            /\ after.attemptsMade <= 3
      ]_vars

\* one job failed its three attempts and another completed at its third
C12_Witness ==
    \E j, k \in DOMAIN queue :
        /\ queue[j].state = "failed"
        /\ queue[j].attemptsMade = 3
        /\ queue[k].state = "completed"
        /\ queue[k].attemptsMade = 2

\* C13: the step that answers an update which dispatched a job leaves that
\* job waiting with no attempt made and nothing logged by the worker, the
\* answer is 200 with the updated row, and an answer once produced is the
\* same in every later state, whether its job completes, fails every
\* attempt or is never taken.
C13_ResponseDoesNotWaitForWorker ==
    [][\A p \in Procs :
        /\ (calls[p].pc = "updateEnqueue" /\ calls'[p].pc = "done" /\ calls'[p].err = <<>>) =>
                LET c == calls'[p]
                    job == queue'[Len(queue')]
                IN  /\ Len(queue') = Len(queue) + 1
                    /\ job.data.bookId = c.id
                    /\ job.state = "waiting"
                    /\ job.attemptsMade = 0
                    /\ log' = log
                    /\ \A v \in Controllers :
                            /\ Response(v, c).status = 200
                            /\ Response(v, c).body.success
                            /\ Response(v, c).body.data = Patched(c.pre.books[c.id], c.data)
        /\ (calls[p].pc = "done" /\ calls'[p].pc = "done") =>
                \A v \in Controllers : Response(v, calls'[p]) = Response(v, calls[p])
      ]_vars

\* the update has been answered and is still on display while its job has
\* failed all its attempts
C13_Witness ==
    \E p \in Procs :
        /\ Done(p, "update") /\ Succeeded(calls[p]) /\ BorrowedToAvailable(calls[p])
        /\ Len(queue) = Len(calls[p].pre.queue) + 1
        /\ queue[Len(queue)].state = "failed"
        /\ Response("part_002", calls[p]).status = 200

\* the job is completed or permanently failed
Terminal(j) == j \in DOMAIN queue /\ queue[j].state \in {"completed", "failed"}

\* the users of the first m rows of the wishlists table that name bookId
UsersOfPrefix(m, bookId) ==
    LET rows == SelectSeq(SubSeq(wishlists, 1, m), LAMBDA w : w.bookId = bookId)
    IN  [k \in DOMAIN rows |-> rows[k].userId]

\* the log holds the run that completed job j: the records of the users who
\* had wishlisted its book when the query ran, one each, then the summary
Notified(j) ==
    \E k \in DOMAIN log :
        /\ "jobId" \in DOMAIN log[k].meta
        /\ log[k].meta.jobId = j
        /\ log[k].level = "info"
        /\ k > 1
        /\ "count" \in DOMAIN log[k - 1].meta
        /\ LET n == log[k - 1].meta.count
           IN  /\ k - 1 > n
               /\ \E m \in 0..Len(wishlists) :
                    /\ Len(UsersOfPrefix(m, queue[j].data.bookId)) = n
                    /\ \A i \in 1..n :
                        /\ "userId" \in DOMAIN log[k - 1 - n + i - 1].meta
                        /\ log[k - 1 - n + i - 1].meta.userId =
                                UsersOfPrefix(m, queue[j].data.bookId)[i]
                        /\ log[k - 1 - n + i - 1].meta.bookId = queue[j].data.bookId

\* C14: with a consumer that keeps polling, every job added to the queue
\* is eventually completed or permanently failed, and a job that completed
\* (its query succeeded within the three attempts) has had one notification
\* emitted for every wishlist entry its book had when the query ran.
C14_JobsReachTerminalState ==
    /\ \A j \in 1..MaxJobs : (j \in DOMAIN queue) ~> Terminal(j)
    /\ [](\A j \in DOMAIN queue : queue[j].state = "completed" => Notified(j))

\* a job completed at its second attempt and the log holds the two
\* notifications of users 7 and 9 for its book
C14_Witness ==
    \E j \in DOMAIN queue :
        /\ queue[j].state = "completed"
        /\ queue[j].attemptsMade = 1
        /\ Notified(j)
        /\ \E a, b \in DOMAIN log :
            /\ "userId" \in DOMAIN log[a].meta /\ log[a].meta.userId = 7
            /\ "userId" \in DOMAIN log[b].meta /\ log[b].meta.userId = 9
            /\ log[a].meta.bookId = queue[j].data.bookId
            /\ log[b].meta.bookId = queue[j].data.bookId

\* the rows a finished list or search call matches
Matching(c) ==
    IF c.op = "list" THEN GetBooksWhere(books, c.data) ELSE SearchBooksWhere(books, c.data)

\* the position of row i among the rows M, newest first
Rank(M, i) == 1 + Cardinality({j \in M : books[j].createdAt > books[i].createdAt})

\* C15: a list or search call with page p and limit L over T matching
\* non-deleted rows reports total = T and totalPages = ceil(T / L), and its
\* data is the rows at positions (p-1)*L+1 .. min(p*L, T) of the matching
\* rows, newest first; beyond the last page the data is empty and the
\* totals are the same.
C15_PageIsTheRequestedWindow ==
    \A p \in Procs :
        LET c == calls[p] IN
        ((Done(p, "list") \/ Done(p, "search")) /\ Succeeded(c)) =>
            LET page == IF "page" \in DOMAIN c.data THEN c.data.page ELSE 1
                L == IF "limit" \in DOMAIN c.data THEN c.data.limit ELSE 10
                M == Matching(c)
                T == Cardinality(M)
                r == c.ret[1]
                first == (page - 1) * L + 1
                last == IF page * L < T THEN page * L ELSE T
            IN  /\ r.pagination.total = T
                /\ r.pagination.totalPages * L >= T
                /\ (r.pagination.totalPages - 1) * L < T
                /\ r.pagination.page = page
                /\ r.pagination.limit = L
                /\ Len(r.books) = IF last >= first THEN last - first + 1 ELSE 0
                /\ \A k \in DOMAIN r.books :
                        /\ r.books[k].id \in M
                        /\ r.books[k] = books[r.books[k].id]
                        /\ Rank(M, r.books[k].id) = first + k - 1
                /\ page > r.pagination.totalPages => r.books = <<>>

\* page 2 of a list with limit 1 over two live books returned the older one
C15_Witness ==
    \E p \in Procs :
        LET c == calls[p] IN
        /\ Done(p, "list")
        /\ c.data = [page |-> 2, limit |-> 1]
        /\ c.ret[1].pagination.total = 2
        /\ c.ret[1].pagination.totalPages = 2
        /\ Len(c.ret[1].books) = 1
        /\ c.ret[1].books[1].id = 1

\* the q value of the request a search call was built from, and the
\* controller that built it
QueryOf(c) == IF "query" \in DOMAIN c.data THEN c.data.query ELSE c.data.q

ControllerOf(c) == IF "query" \in DOMAIN c.data THEN "part_002" ELSE "bookController.ts"

\* C16: GET /books/search with a non-empty q is answered 200 with
\* success true; total counts exactly the non-deleted books whose title or
\* author contains the trimmed q whatever the case, every row of data is
\* one of them, and a first page that is long enough holds them all.
C16_SearchAnswersTheMatches ==
    \A p \in Procs :
        LET c == calls[p] IN
        Done(p, "search") =>
            LET term == Trim(QueryOf(c))
                M == {i \in DOMAIN books :
                        /\ ~books[i].isDeleted
                        /\ \/ ContainsInsensitive(books[i].title, term)
                           \/ ContainsInsensitive(books[i].author, term)}
                res == Response(ControllerOf(c), c)
            IN  /\ res.status = 200
                /\ res.body.success
                /\ res.body.pagination.total = Cardinality(M)
                /\ \A k \in DOMAIN res.body.data : res.body.data[k].id \in M
                /\ (c.data.page = 1 /\ c.data.limit >= Cardinality(M)) =>
                        {res.body.data[k].id : k \in DOMAIN res.body.data} = M

\* C17: DELETE /books/{id} of a non-deleted book is answered 200 with
\* success true and the message 'Book deleted successfully', and a later
\* GET /books/{id} of that book is answered 404.
C17_DeleteAnswersOk ==
    \A p \in Procs, v \in Controllers :
        LET c == calls[p] IN
        /\ (Done(p, "delete") /\ Live(c.pre.books, c.id)) =>
                /\ Response(v, c).status = 200
                /\ Response(v, c).body.success
                /\ Response(v, c).body.message = "Book deleted successfully"
        /\ (Done(p, "get") /\ Deleted(c.pre.books, c.id)) =>
                Response(v, c).status = 404

\* the routes that have validators
ValidatedRoutes == {"POST /books", "PUT /books/:id", "GET /books", "GET /books/search"}

\* C18: a request that fails validation is answered 400 with success false
\* and has run no service step: no row, wishlist entry or job changed; and
\* no service call carries a malformed ISBN, a year outside 1000..next
\* year, a status other than Available and Borrowed, a page below 1, a
\* limit outside 1..100 or a blank search text.
C18_InvalidRequestsStopAtValidation ==
    \A p \in Procs :
        LET c == calls[p] IN
        /\ c.op \in ValidatedRoutes =>
                /\ c.pc = "done"
                /\ c.ret = <<>> /\ c.existingBook = <<>>
                /\ \A v \in Controllers :
                        Response(v, c).status = 400 /\ ~Response(v, c).body.success
                /\ books = c.pre.books
                /\ wishlists = c.pre.wishlists
                /\ queue = c.pre.queue
        /\ c.op \in {"create", "update"} =>
                /\ "isbn" \in DOMAIN c.data =>
                        /\ Len(c.data.isbn) \in {10, 13}
                        /\ \A k \in DOMAIN c.data.isbn :
                                c.data.isbn[k] \in {"0", "1", "2", "3", "4", "5", "6", "7", "8", "9"}
                /\ "publishedYear" \in DOMAIN c.data =>
                        (c.data.publishedYear >= 1000 /\ c.data.publishedYear <= ThisYear + 1)
                /\ "availabilityStatus" \in DOMAIN c.data =>
                        c.data.availabilityStatus \in {"Available", "Borrowed"}
        /\ c.op \in {"list", "search"} =>
                /\ c.data.page >= 1
                /\ c.data.limit >= 1 /\ c.data.limit <= 100
        /\ c.op = "search" => Trim(QueryOf(c)) # <<>>

\* a create with a malformed ISBN was turned away while the table held a book
C18_Witness ==
    \E p \in Procs :
        LET c == calls[p] IN
        /\ Done(p, "POST /books")
        /\ c.err[1].errors = {"isbn"}
        /\ ~IsbnPattern(c.data.isbn)
        /\ Len(books) >= 1
        /\ Response("part_002", c).status = 400

\* the jobs the queue holds for book b
JobsFor(q, b) == Cardinality({j \in DOMAIN q : q[j].data.bookId = b})

\* this step is the return of a successful update by p that found book b
\* Borrowed and asked for Available
BecameAvailable(p, b) ==
    /\ calls[p].pc # "done"
    /\ calls'[p].pc = "done"
    /\ calls'[p].op = "update"
    /\ calls'[p].id = b
    /\ Succeeded(calls'[p])
    /\ BorrowedToAvailable(calls'[p])

\* C19: jobs are not deduplicated: every successful update that takes a
\* book from Borrowed to Available adds one job for it and no other step
\* adds or removes one, so the number of jobs of a book is the number of
\* such updates.
C19_OneJobPerTransition ==
    [][\A b \in 1..MaxBooks :
        JobsFor(queue', b) =
            JobsFor(queue, b) + Cardinality({p \in Procs : BecameAvailable(p, b)})
      ]_vars

\* a book went to Available, back to Borrowed and to Available again: the
\* queue holds two jobs for it
C19_Witness ==
    \E b \in DOMAIN books :
        /\ JobsFor(queue, b) = 2
        /\ books[b].availabilityStatus = "Available"
        /\ \E p \in Procs : Done(p, "update") /\ calls[p].id = b /\ BorrowedToAvailable(calls[p])

\* C20: the answer to PUT /books/{id} carries an X-Notification-Triggered
\* header, true exactly when the update took the book from Borrowed to
\* Available.
C20_NotificationTriggeredHeader ==
    \A p \in Procs, v \in Controllers :
        LET c == calls[p] IN
        (Done(p, "update") /\ Succeeded(c)) =>
            /\ "X-Notification-Triggered" \in DOMAIN Response(v, c).headers
            /\ Response(v, c).headers["X-Notification-Triggered"] = BorrowedToAvailable(c)

(* ------------------- the worker run again (C21) ------------------- *)
MaxRerunCalls == 5

\* one client, one book: the book goes back and forth between Borrowed and
\* Available, so that the worker runs more than once for the same book
NextRerun ==
    \/ AllFree /\ \E data \in OneBookCreates : CreateBegin(1, data, Snapshot, MaxRerunCalls)
    \/ AllFree /\ \E id \in DOMAIN books, data \in StatusUpdates :
            UpdateBegin(1, id, data, Snapshot, MaxRerunCalls)
    \/ AllFree /\ AddWishlist(MaxRerunCalls)
    \/ WorkerSteps(1)
    \/ \E j \in 1..MaxJobs : Worker(j)

SpecRerun == Init /\ [][NextRerun]_vars

\* the job whose run ends in this step
Completes(j) ==
    j \in DOMAIN queue /\ queue[j].state = "active" /\ queue'[j].state = "completed"

\* the earlier runs recorded in the log for the same book id and title that
\* saw as many Wishlist rows of the book as there are now (rows are only ever
\* added, so these are the runs since which the rows did not change)
EarlierRuns(bookId, bookTitle) ==
    {k \in Summaries(log) :
        /\ log[k].meta.bookId = bookId
        /\ log[k].meta.bookTitle = bookTitle
        /\ log[k].meta.count
            = Cardinality({i \in DOMAIN wishlists : wishlists[i].bookId = bookId})}

\* C21: a run of the worker for a book id and title that an earlier run was
\* made for, the Wishlist rows unchanged since, emits the same set of
\* notification records and returns the same result as that run; and no step
\* of the worker changes a Book or a Wishlist row
C21_WorkerRunIsRepeatable ==
    [][\A j \in DOMAIN queue :
        /\ queue'[j] # queue[j] => books' = books /\ wishlists' = wishlists
        /\ Completes(j) =>
            LET b == queue[j].data.bookId
                t == queue[j].data.bookTitle
                emitted == SubSeq(log', Len(log) + 1, Len(log') - 1)
                result == processWishlistNotifications(wishlists, b, t).result
            IN  \A k \in EarlierRuns(b, t) :
                    /\ {emitted[i] : i \in DOMAIN emitted}
                            = {log[i] : i \in (k - log[k].meta.count)..k}
                    /\ result = [processed |-> log[k].meta.count,
                                 message |-> log[k].message]]_vars

\* two runs for the same book and title over the same, non-empty wishlist
C21_Witness ==
    \E k1, k2 \in Summaries(log) :
        /\ k1 < k2
        /\ log[k1].meta.bookId = log[k2].meta.bookId
        /\ log[k1].meta.bookTitle = log[k2].meta.bookTitle
        /\ log[k1].meta.count = log[k2].meta.count
        /\ log[k1].meta.count >= 1

(* --------------------- two updates racing (C22) --------------------- *)
\* p is an update that read its book as Borrowed and asks for Available
ReadBorrowedAsksAvailable(p) ==
    /\ calls[p].op = "update"
    /\ calls[p].existingBook # <<>>
    /\ calls[p].existingBook[1].availabilityStatus = "Borrowed"
    /\ "availabilityStatus" \in DOMAIN calls[p].data
    /\ calls[p].data.availabilityStatus = "Available"

\* C22: two concurrent updates of one Borrowed book that both ask for
\* Available can both read Borrowed before either writes; each of them then
\* adds its own job, so two jobs are enqueued for one change of the stored
\* status. While both are past their write the stored status is Available,
\* and every one of the two that has returned successfully has its job in
\* the queue.
C22_RacingUpdatesEnqueueTwice ==
    \A p, q \in Procs :
        ( /\ p # q
          /\ calls[p].id = calls[q].id
          /\ ReadBorrowedAsksAvailable(p) /\ ReadBorrowedAsksAvailable(q)
          /\ calls[p].pc \in {"updateEnqueue", "done"}
          /\ calls[q].pc \in {"updateEnqueue", "done"}
          /\ Succeeded(calls[p]) /\ Succeeded(calls[q]) )
        => /\ books[calls[p].id].availabilityStatus = "Available"
           /\ JobsFor(queue, calls[p].id)
                >= Cardinality({r \in {p, q} : calls[r].pc = "done"})

\* the whole history is one create and two updates (three calls, one book):
\* both updates read Borrowed, so neither had written when the other read,
\* the status went from Borrowed to Available once, and two jobs are queued
C22_Witness ==
    \E p, q \in Procs :
        /\ p # q
        /\ ncalls = 3 /\ Len(books) = 1
        /\ Done(p, "update") /\ Done(q, "update")
        /\ ReadBorrowedAsksAvailable(p) /\ ReadBorrowedAsksAvailable(q)
        /\ Succeeded(calls[p]) /\ Succeeded(calls[q])
        /\ books[1].availabilityStatus = "Available"
        /\ JobsFor(queue, 1) = 2

(* ---------------- a crash between write and enqueue (C23) ---------------- *)
MaxCrashCalls == 4

\* p is inside a service call: begun, and not yet returned or thrown
InFlight(p) == calls[p].pc \notin {"idle", "done", "crashed"}

\* a process exit that undoes the write of a call that had not enqueued yet
CrashRollingBack ==
    /\ \E p \in Procs : InFlight(p)
    /\ calls' = [p \in Procs |->
            IF InFlight(p) THEN [calls[p] EXCEPT !.pc = "crashed"] ELSE calls[p]]
    /\ books' = [i \in DOMAIN books |->
            IF \E p \in Procs : calls[p].pc = "updateEnqueue" /\ calls[p].id = i
            THEN [books[i] EXCEPT !.availabilityStatus = "Borrowed"] ELSE books[i]]
    /\ UNCHANGED <<wishlists, queue, clock, ncalls, log>>

\* the process exits: every call in flight stops where it is and its caller
\* gets no answer; what the database and the queue hold is kept
Crash ==
    /\ \E p \in Procs : InFlight(p)
    /\ calls' = [p \in Procs |->
            IF InFlight(p) THEN [calls[p] EXCEPT !.pc = "crashed"] ELSE calls[p]]
    /\ UNCHANGED <<books, wishlists, queue, clock, ncalls, log>>

\* the caller of a stopped call gives up: nothing of the call is left
Forget(p) ==
    /\ calls[p].pc = "crashed"
    /\ calls' = [calls EXCEPT ![p] = Idle]
    /\ UNCHANGED <<books, wishlists, queue, clock, ncalls, log>>

\* no call is being served: the process takes the next request
Quiet == \A q \in Procs : calls[q].pc \in {"idle", "crashed"}

\* one book, requests served one at a time by a process that may exit at any
\* await and is started again
NextCrash ==
    \/ Quiet /\ \E p \in Procs, data \in OneBookCreates :
            CreateBegin(p, data, Snapshot, MaxCrashCalls)
    \/ Quiet /\ \E p \in Procs, id \in DOMAIN books, data \in StatusUpdates :
            UpdateBegin(p, id, data, Snapshot, MaxCrashCalls)
    \/ \E p \in Procs : WorkerSteps(p)
    \/ Crash
    \/ \E p \in Procs : Forget(p)

SpecCrash == Init /\ [][NextCrash]_vars

\* p stopped between its write and its enqueue
CrashedBeforeEnqueue(p) == calls[p].pc = "crashed" /\ calls[p].ret # <<>>

\* C23: the write and the enqueue of an update are two steps.  When the
\* process exits between them the book stays Available in the store and the
\* queue is as it was before the call.  The stopped call never runs again,
\* and a job is only ever added by the enqueue step of a call in flight that
\* itself read the book as Borrowed, so no later step adds the job of the
\* lost transition.
C23_CrashLosesTheJob ==
    [][/\ \A p \in Procs :
            /\ (calls[p].pc = "updateEnqueue" /\ calls'[p].pc = "crashed")
                    => /\ BorrowedToAvailable(calls[p])
                       /\ books[calls[p].id].availabilityStatus = "Available"
                       /\ queue = calls[p].pre.queue
                       /\ books' = books /\ queue' = queue
            /\ CrashedBeforeEnqueue(p) => calls'[p] \in {calls[p], Idle}
       /\ \A b \in DOMAIN books :
            JobsFor(queue', b) > JobsFor(queue, b)
                => \E p \in Procs : /\ calls[p].pc = "updateEnqueue" /\ calls[p].id = b
                                    /\ calls'[p].pc = "done"
                                    /\ ReadBorrowedAsksAvailable(p)
                                    /\ JobsFor(queue', b) = JobsFor(queue, b) + 1
      ]_vars

\* an update stopped between write and enqueue; a later update that asked
\* for Available again found the book Available and was answered: the book
\* is Available and there is still no job
C23_Witness ==
    \E p, q \in Procs :
        /\ CrashedBeforeEnqueue(p)
        /\ Done(q, "update") /\ Succeeded(calls[q]) /\ calls[q].id = calls[p].id
        /\ calls[q].data.availabilityStatus = "Available"
        /\ calls[q].pre.books[calls[q].id].availabilityStatus = "Available"
        /\ books[calls[q].id].availabilityStatus = "Available"
        /\ queue = <<>>

(* --------------------- two creates racing (C24) --------------------- *)
\* p is a create that got past the service's own duplicate check
PassedPreCheck(p) ==
    /\ Done(p, "create")
    /\ calls[p].err \in {<<>>, <<PrismaUniqueError>>}

\* the rows that hold the ISBN isbn, deleted or not
RowsWithIsbn(bs, isbn) == {i \in DOMAIN bs : bs[i].isbn = isbn}

\* C24: of two concurrent creates of one ISBN that both pass the service's
\* pre-check at most one stores a row; the other is stopped by the unique
\* index, and the error boundary answers it 409 with success false.  Stated
\* on the insert step of a create p: no ISBN is ever held by two rows; when
\* the ISBN was stored since p's pre-check the insert stores nothing and p is
\* answered 409; and when another create of the ISBN is past its pre-check
\* too, the two do not both succeed.
C24_RacingCreatesOneWins ==
    [][\A p \in Procs :
        (calls[p].op = "create" /\ calls[p].pc = "createInsert" /\ calls'[p].pc = "done")
        => LET isbn == calls[p].data.isbn
           IN  /\ Cardinality(RowsWithIsbn(books', isbn)) <= 1
               /\ RowsWithIsbn(books, isbn) # {}
                    => /\ books' = books
                       /\ \A v \in Controllers :
                            /\ Response(v, calls'[p]).status = 409
                            /\ Response(v, calls'[p]).body.success = FALSE
               /\ RowsWithIsbn(books, isbn) = {}
                    => /\ Succeeded(calls'[p])
                       /\ Cardinality(RowsWithIsbn(books', isbn)) = 1
               /\ \A q \in Procs \ {p} :
                    (calls[q].op = "create" /\ calls[q].data.isbn = isbn
                        /\ calls[q].pc = "createInsert")
                    => (Succeeded(calls'[p]) => RowsWithIsbn(books, isbn) = {})
      ]_vars

\* the race with nothing else in the history: two creates, one row, one
\* caller answered 201 and the other 409
C24_Witness ==
    \E p, q \in Procs :
        /\ p # q /\ ncalls = 2 /\ Len(books) = 1
        /\ PassedPreCheck(p) /\ PassedPreCheck(q)
        /\ calls[p].data.isbn = calls[q].data.isbn
        /\ Succeeded(calls[p]) /\ books[1].isbn = calls[p].data.isbn
        /\ calls[q].err = <<PrismaUniqueError>>
        /\ \A v \in Controllers :
            /\ Response(v, calls[p]).status = 201
            /\ Response(v, calls[q]).status = 409
            /\ Response(v, calls[q]).body.success = FALSE

(* ------------------ what the queue events log (C25) ------------------ *)
MaxQueueErrors == 1
MaxEventCalls == 3

\* notificationQueue.on('error')
OnError(error) ==
    [level |-> "error", message |-> <<"Notification queue error">>,
     meta |-> [error |-> error.message]]

QueueErrors == {k \in DOMAIN log : log[k].message = <<"Notification queue error">>}

\* the connection of the queue to its store fails: the queue emits 'error'
QueueErrorEvent ==
    /\ Cardinality(QueueErrors) < MaxQueueErrors
    /\ log' = Append(log, OnError(QueueError))
    /\ UNCHANGED <<books, wishlists, queue, clock, calls, ncalls>>

\* one client, one book, the consumer, and a connection that may fail
NextEvents ==
    \/ AllFree /\ \E data \in OneBookCreates : CreateBegin(1, data, Snapshot, MaxEventCalls)
    \/ AllFree /\ \E id \in DOMAIN books, data \in StatusUpdates :
            UpdateBegin(1, id, data, Snapshot, MaxEventCalls)
    \/ AllFree /\ AddWishlist(MaxEventCalls)
    \/ WorkerSteps(1)
    \/ \E j \in 1..MaxJobs : Worker(j)
    \/ QueueErrorEvent

SpecEvents == Init /\ [][NextEvents]_vars

\* the records written by the handlers of the queue's events
EventRecords ==
    {k \in DOMAIN log :
        log[k].message \in {<<"Notification job completed">>, <<"Notification job failed">>,
                            <<"Notification queue error">>}}

\* C25: every completed job, every failed attempt and every connectivity
\* error of the queue is logged with the job's id and the book's id and title.
C25_EventRecordsNameJobAndBook ==
    \A k \in EventRecords : {"jobId", "bookId", "bookTitle"} \subseteq DOMAIN log[k].meta

(* ---------------- what the error boundary logs (C26) ---------------- *)
\* C26: the error boundary logs at warn level every error it answers with a
\* 4xx status and at error level every error it answers with a 5xx status,
\* and the status it logs and writes into the body is the status it sends.
C26_LogLevelFollowsTheStatusSent ==
    \A p \in Procs :
        (calls[p].pc = "done" /\ calls[p].err # <<>>)
        => LET handled == errorHandler(calls[p].err[1])
           IN  /\ handled.httpStatus \in 400..499 => handled.level = "warn"
               /\ handled.httpStatus >= 500 => handled.level = "error"
               /\ handled.body.status = handled.httpStatus

(* ------------ rows written past the service (C27) ------------ *)
MaxStoreCalls == 2

\* createTestBook(overrides): prisma.book.create with the data given, which
\* may carry a deletedAt; the service is not involved, isDeleted keeps its
\* default
createTestBook(data, deletedAt, max) ==
    /\ ncalls < max
    /\ Len(books) < MaxBooks
    /\ ~IsbnKeyViolated(0, data.isbn)
    /\ ncalls' = ncalls + 1
    /\ books' = Append(books, [NewBook(data) EXCEPT !.deletedAt = deletedAt])
    /\ clock' = clock + 1
    /\ UNCHANGED <<wishlists, queue, calls, log>>

\* rows stored by the service or directly, soft deletes, and the two listings
NextStore ==
    \/ AllFree /\ \E data \in BookCreateInput(ConcTitles), deletedAt \in {NULL, clock} :
            createTestBook(data, deletedAt, MaxStoreCalls)
    \/ AllFree /\ \E id \in BookIds : DeleteBegin(1, id, Snapshot, MaxStoreCalls)
    \/ AllFree /\ \E params \in BookQueryParams : ListBegin(1, params, Snapshot, MaxStoreCalls)
    \/ AllFree /\ \E params \in SearchQueryParams : SearchBegin(1, params, Snapshot, MaxStoreCalls)
    \/ DeleteFind(1)
    \/ DeleteWrite(1)
    \/ ListQuery(1)
    \/ SearchQuery(1)
    \/ Respond(1)

SpecStore == Init /\ [][NextStore]_vars

\* C27: no row whose deletedAt is set is returned by list or by search,
\* whichever way the timestamp got into the store.
C27_RowsWithDeletedAtAreHidden ==
    \A p \in Procs :
        ((Done(p, "list") \/ Done(p, "search")) /\ Succeeded(calls[p]))
        => \A k \in DOMAIN calls[p].ret[1].books :
                calls[p].ret[1].books[k].deletedAt = NULL

(* ------------- failed requests and the store (C28) ------------- *)
\* C28: a create, update or delete request that is answered with an error
\* leaves every book row as it was before the request.
C28_FailedWritesChangeNothing ==
    \A p \in Procs, v \in Controllers :
        ( /\ calls[p].pc = "done"
          /\ calls[p].op \in {"create", "update", "delete",
                              "POST /books", "PUT /books/:id", "DELETE /books/:id"}
          /\ Response(v, calls[p]).status >= 400 )
        => books = calls[p].pre.books

(* ----------- updates and deletes interleaved (C29) ----------- *)
\* C29: once a book is soft-deleted no step changes any of its fields or
\* restores it, and no step adds a job for it, however concurrent updates and
\* deletes of its id interleave.
C29_DeletedBooksAreFrozen ==
    [][\A i \in DOMAIN books :
        books[i].isDeleted
            => /\ books'[i] = books[i]
               /\ JobsFor(queue', i) = JobsFor(queue, i)
      ]_vars

(* ------------- notifications over all attempts (C30) ------------- *)
\* the records this step appends to the log
Emitted == SubSeq(log', Len(log) + 1, Len(log'))

\* the per-user records of records that are about book b and user u
RecordsFor(records, b, u) ==
    {k \in PerUser(records) : records[k].meta.bookId = b /\ records[k].meta.userId = u}

\* the users on the wishlist of book b
WishlistUsers(b) == {wishlists[i].userId : i \in {k \in DOMAIN wishlists : wishlists[k].bookId = b}}

CompletedJobsFor(b) ==
    {j \in DOMAIN queue : queue[j].data.bookId = b /\ queue[j].state = "completed"}

\* C30: an attempt that fails emits no per-user record; the attempt that
\* completes a job emits exactly one for each user on the book's wishlist at
\* that moment and none for anyone else; a job that is completed or failed
\* for good is never run again.  So over all attempts of a job that
\* completes each such user is notified once, and a job that ends
\* permanently failed notifies nobody: a book without a completed job has
\* no per-user record, and no user has more records than the book has
\* completed jobs.
C30_OnlyTheSuccessfulAttemptNotifies ==
    [][/\ \A j \in DOMAIN queue :
            LET b == queue[j].data.bookId
            IN  /\ (queue[j].state = "active" /\ queue'[j].state \in {"delayed", "failed"})
                        => PerUser(Emitted) = {}
                /\ (queue[j].state = "active" /\ queue'[j].state = "completed")
                        => /\ \A u \in WishlistUsers(b) :
                                Cardinality(RecordsFor(Emitted, b, u)) = 1
                           /\ Cardinality(PerUser(Emitted)) = Cardinality(WishlistUsers(b))
                /\ Terminal(j) => queue'[j] = queue[j]
       /\ (\A j \in DOMAIN queue : queue[j].state # "active") => log' = log
       /\ \A b \in DOMAIN books, u \in Users :
            Cardinality(RecordsFor(log, b, u)) <= Cardinality(CompletedJobsFor(b))
      ]_vars

\* a job that failed at least once and then completed: each of the two
\* users on its book's wishlist has exactly one record in the log
C30_Witness ==
    \E j \in DOMAIN queue :
        /\ queue[j].state = "completed"
        /\ queue[j].attemptsMade >= 1
        /\ Cardinality(WishlistUsers(queue[j].data.bookId)) = 2
        /\ \A u \in WishlistUsers(queue[j].data.bookId) :
                Cardinality(RecordsFor(log, queue[j].data.bookId, u)) = 1

====
